---- MODULE Spec2Model ----
(***************************************************************************)
(* getmeson.py: download a fixed meson release, verify its SHA-256,        *)
(* extract it into the working directory and rename the extracted          *)
(* directory to "meson".                                                   *)
(*                                                                         *)
(* The script is one sequential process.  The model follows it statement   *)
(* by statement (pc is the position in the script), for MaxRuns            *)
(* consecutive invocations in the same working directory.  The             *)
(* environment is what the script cannot decide: the working directory at  *)
(* the first invocation, the arguments, what urlopen/read deliver, and     *)
(* what the tarfile library raises.                                        *)
(*                                                                         *)
(* Top-level entries of the working directory are directories or absent.   *)
(* os/shutil calls on existing directories succeed.                        *)
(***************************************************************************)
EXTENDS Integers, Sequences, FiniteSets, TLC

VARIABLES
  pc,          \* position in the script
  run,         \* number of the current invocation, 1..MaxRuns
  argv,        \* sys.argv[1:]
  fs,          \* working directory: top-level name -> directory or Absent
  fs0,         \* the working directory when the current invocation started
  page,        \* local `page` of gettar: "unbound", "open", "closed"
  mesontar,    \* the downloaded bytes, NoTar before the download returned
  tarbuffered, \* local `tarbuffered` of untartodir
  t,           \* local `t` of untartodir
  ogdir,       \* local `ogdir` of untartodir (a path), NoPath while unbound
  exc,         \* the exception in flight, "none" when there is none
  log,         \* what this invocation did so far, in order
  exitcode,    \* process exit status, Running until the process ended
  prevRun      \* how the previous invocation went, "none" in the first

vars == <<pc, run, argv, fs, fs0, page, mesontar, tarbuffered, t, ogdir,
          exc, log, exitcode, prevRun>>

----------------------------------------------------------------------------
(* Bounds of the model *)

MaxRuns == 2
MaxArgs == 1
MaxMembers == 2

----------------------------------------------------------------------------
(* Module-level constants of the script *)

VERSION == "0.49.2"
SHA256 == "ef9f14326ec1e30d3ba1a26df0f92826ede5a79255ad723af78a2691c37109fd"
TAR_DIR == "meson-" \o VERSION
CanonicalDir == "meson"

----------------------------------------------------------------------------
(* The environment: files, directories, archives *)

Absent == <<>>
NoFile == "nofile"
NoTar == [digest |-> "none", tar |-> FALSE, members |-> <<>>]
NoPath == <<>>
Running == 0 - 1

\* Contents a file meson.py can have, named by what running it does.
FileData == {"py_ok", "py_old", "py_fail"}
FileNames == {"meson.py"}
TopNames == {CanonicalDir, TAR_DIR, "unexpected-dir"}
Dirs == [FileNames -> FileData \cup {NoFile}]
EmptyDir == [f \in FileNames |-> NoFile]
FileSystems == [TopNames -> Dirs \cup {Absent}]

\* `meson.py --version` as a child process: return code and standard output
\* (standard output as a sequence of tokens, "\n" the newline).
ChildProcess(data) ==
  CASE data = "py_ok"   -> [returncode |-> 0, stdout |-> <<VERSION, "\n">>]
    [] data = "py_old"  -> [returncode |-> 0, stdout |-> <<"0.48.0", "\n">>]
    [] data = "py_fail" -> [returncode |-> 1, stdout |-> <<"Traceback", "\n">>]

Whitespace == {" ", "\n", "\t"}

\* str.rstrip(): drop the trailing whitespace
RECURSIVE rstrip(_)
rstrip(s) ==
  IF s = <<>> THEN s
  ELSE IF s[Len(s)] \in Whitespace THEN rstrip(SubSeq(s, 1, Len(s) - 1))
  ELSE s

\* os.path.join("meson", "meson.py")
mesonbinary == <<CanonicalDir, "meson.py">>

\* os.path.isfile(path) for a path <<directory, file>>
isfile(path) == fs[path[1]] # Absent /\ fs[path[1]][path[2]] # NoFile

\* os.path.exists(dst) for a top-level name
pathexists(dst) == fs[dst] # Absent

\* Arguments the script can be started with
ArgWords == {"-n", "-v"}
ArgLists == UNION {[1..n -> ArgWords] : n \in 0..MaxArgs}

\* A tar member: a directory entry (file = NoFile) or a file below a
\* top-level directory.
Members ==
  [dir : TopNames, file : {NoFile}, data : {NoFile}]
    \cup [dir : {TAR_DIR}, file : FileNames, data : {"py_ok", "py_old"}]
    \cup [dir : {CanonicalDir}, file : FileNames, data : {"py_old"}]

\* TarInfo.name
membername(m) == IF m.file = NoFile THEN <<m.dir>> ELSE <<m.dir, m.file>>

Archives == UNION {[1..n -> Members] : n \in 0..MaxMembers}

\* The release archive of VERSION: its root directory and below it a meson.py
\* that reports VERSION.
ReleaseArchive ==
  << [dir |-> TAR_DIR, file |-> NoFile, data |-> NoFile],
     [dir |-> TAR_DIR, file |-> "meson.py", data |-> "py_ok"] >>

OtherDigest == "0000000000000000000000000000000000000000000000000000000000000000"

\* What a completed download can deliver: bytes with their SHA-256 digest,
\* whether they are a tar archive at all, and the tar members they hold.
Downloads ==
  [digest : {SHA256}, tar : {TRUE}, members : Archives]
    \cup [digest : {OtherDigest}, tar : {TRUE}, members : {ReleaseArchive}]
    \cup [digest : {SHA256, OtherDigest}, tar : {FALSE}, members : {<<>>}]

\* The bytes of the release asset the URL names.
ReleaseDownload ==
  [digest |-> SHA256, tar |-> TRUE, members |-> ReleaseArchive]

\* Extraction that leaves existing files alone.
extractmember_keepexisting(f, m) ==
  LET d == IF f[m.dir] = Absent THEN EmptyDir ELSE f[m.dir]
  IN  IF m.file = NoFile \/ d[m.file] # NoFile
        THEN [f EXCEPT ![m.dir] = d]
        ELSE [f EXCEPT ![m.dir] = [d EXCEPT ![m.file] = m.data]]

\* One member extracted into the working directory: missing directories are
\* created, an existing file is overwritten.
extractmember(f, m) ==
  LET d == IF f[m.dir] = Absent THEN EmptyDir ELSE f[m.dir]
  IN  IF m.file = NoFile
        THEN [f EXCEPT ![m.dir] = d]
        ELSE [f EXCEPT ![m.dir] = [d EXCEPT ![m.file] = m.data]]

\* The first k members extracted, in archive order.
RECURSIVE extracted(_, _, _)
extracted(f, members, k) ==
  IF k = 0 THEN f
  ELSE extractmember(extracted(f, members, k - 1), members[k])

----------------------------------------------------------------------------
(* Python's termination *)

\* Exit status of the interpreter when `e` propagates out of the script:
\* SystemExit(n) gives n, any other exception a traceback and 1.
exitstatus(e) ==
  CASE e = "none" -> 0
    [] e = "SystemExit(0)" -> 0
    [] OTHER -> 1

Done == pc = "done"

Logged(e) == \E i \in 1..Len(log) : log[i] = e

----------------------------------------------------------------------------
Init ==
  /\ pc = "start"
  /\ run = 1
  /\ argv \in ArgLists
  /\ fs \in {f \in FileSystems : f["unexpected-dir"] = Absent}
  /\ fs0 = fs
  /\ page = "unbound"
  /\ mesontar = NoTar
  /\ tarbuffered = "unbound"
  /\ t = "unbound"
  /\ ogdir = NoPath
  /\ exc = "none"
  /\ log = <<>>
  /\ exitcode = Running
  /\ prevRun = "none"

\* The process ends with exception e in flight ("none": end of the script).
Terminate(e) ==
  /\ pc' = "done"
  /\ exc' = e
  /\ exitcode' = exitstatus(e)

----------------------------------------------------------------------------
(* exists(), lines 34-45 *)

\* subprocess.run(..., check=True) raises CalledProcessError on a non-zero
\* return code.
existsraises ==
  /\ isfile(mesonbinary)
  /\ ChildProcess(fs[mesonbinary[1]][mesonbinary[2]]).returncode # 0

\* exists() comparing the child's output as printed, newline included.
exists_norstrip(expectedversion) ==
  IF isfile(mesonbinary)
    THEN ChildProcess(fs[mesonbinary[1]][mesonbinary[2]]).stdout
           = <<expectedversion>>
    ELSE FALSE

\* The value exists(expectedversion) returns when it returns.
exists(expectedversion) ==
  IF isfile(mesonbinary)
    THEN LET mesonver ==
               rstrip(ChildProcess(fs[mesonbinary[1]][mesonbinary[2]]).stdout)
         IN  mesonver = <<expectedversion>>
    ELSE FALSE

existslog == IF isfile(mesonbinary) THEN <<"subprocess">> ELSE <<>>

\* line 106, exists() raising: the exception is not caught anywhere.
ExistsRaises ==
  /\ pc = "start"
  /\ existsraises
  /\ log' = log \o existslog
  /\ Terminate("CalledProcessError")
  /\ UNCHANGED <<run, argv, fs, fs0, page, mesontar, tarbuffered, t, ogdir,
                 prevRun>>

\* lines 126-128: the expected version is installed.
FoundInstalled ==
  /\ pc = "start"
  /\ ~existsraises
  /\ exists(VERSION)
  /\ log' = log \o existslog \o <<"print:found">>
  /\ Terminate("SystemExit(0)")
  /\ UNCHANGED <<run, argv, fs, fs0, page, mesontar, tarbuffered, t, ogdir,
                 prevRun>>

\* line 106: `not exists(VERSION)` holds.
NotInstalled ==
  /\ pc = "start"
  /\ ~existsraises
  /\ ~exists(VERSION)
  /\ log' = log \o existslog
  /\ pc' = "notfound"
  /\ UNCHANGED <<run, argv, fs, fs0, page, mesontar, tarbuffered, t, ogdir,
                 exc, exitcode, prevRun>>

----------------------------------------------------------------------------
(* dry run, lines 107-113 *)

\* "-n" in sys.argv[2:]
dryrun_argv2 == \E i \in 2..Len(argv) : argv[i] = "-n"

\* "-n" in sys.argv[1:]
dryrun == \E i \in 1..Len(argv) : argv[i] = "-n"

DryRunExit ==
  /\ pc = "notfound"
  /\ dryrun
  /\ log' = Append(log, "eprintf:dryrun")
  /\ Terminate("SystemExit(1)")
  /\ UNCHANGED <<run, argv, fs, fs0, page, mesontar, tarbuffered, t, ogdir,
                 prevRun>>

----------------------------------------------------------------------------
(* gettar(), lines 48-63 *)

\* lines 53-54: urlopen returns a response.
GetTarUrlopen ==
  /\ pc = "notfound"
  /\ ~dryrun
  /\ log' = log \o <<"print:Downloading", "urlopen">>
  /\ page' = "open"
  /\ pc' = "gettar_read"
  /\ UNCHANGED <<run, argv, fs, fs0, mesontar, tarbuffered, t, ogdir, exc,
                 exitcode, prevRun>>

\* lines 54, 56-61: urlopen raises; the handler reports and calls sys.exit(1).
GetTarUrlopenFails ==
  /\ pc = "notfound"
  /\ ~dryrun
  /\ \E e \in {"HTTPError", "URLError"} :
       log' = log \o <<"print:Downloading", "urlopen", "eprintf:" \o e>>
  /\ exc' = "SystemExit(1)"
  /\ pc' = "gettar_finally"
  /\ UNCHANGED <<run, argv, fs, fs0, page, mesontar, tarbuffered, t, ogdir,
                 exitcode, prevRun>>

\* line 55: page.read() returns the body.
GetTarRead ==
  /\ pc = "gettar_read"
  /\ \E d \in Downloads : mesontar' = d
  /\ log' = Append(log, "read")
  /\ pc' = "gettar_finally"
  /\ UNCHANGED <<run, argv, fs, fs0, page, tarbuffered, t, ogdir, exc,
                 exitcode, prevRun>>

\* line 55: the connection breaks while reading; neither handler matches.
GetTarReadFails ==
  /\ pc = "gettar_read"
  /\ log' = Append(log, "read")
  /\ exc' = "ConnectionResetError"
  /\ pc' = "gettar_finally"
  /\ UNCHANGED <<run, argv, fs, fs0, page, mesontar, tarbuffered, t, ogdir,
                 exitcode, prevRun>>

\* close() guarded against an unbound local.
closeraises_never(local) == FALSE

\* What `name.close()` in a finally clause does to the local `name`: an
\* unbound local raises UnboundLocalError, which replaces the exception in
\* flight.
closeraises(local) == local = "unbound"

\* lines 62-63: finally: page.close()
GetTarFinally ==
  /\ pc = "gettar_finally"
  /\ IF closeraises(page)
       THEN /\ log' = Append(log, "raise:UnboundLocalError")
            /\ Terminate("UnboundLocalError")
            /\ UNCHANGED page
       ELSE /\ page' = "closed"
            /\ log' = Append(log, "page.close")
            /\ IF exc # "none"
                 THEN Terminate(exc)
                 ELSE /\ pc' = "hashcheck"
                      /\ UNCHANGED <<exc, exitcode>>
  /\ UNCHANGED <<run, argv, fs, fs0, mesontar, tarbuffered, t, ogdir, prevRun>>

----------------------------------------------------------------------------
(* isvalidhash(), lines 66-70, and its use, lines 115, 121-125 *)

\* hashlib.sha256(file).hexdigest()
hexdigest(file) == file.digest

isvalidhash_inverted(file, expectedhash) == hexdigest(file) # expectedhash

isvalidhash(file, expectedhash) == hexdigest(file) = expectedhash

HashValid ==
  /\ pc = "hashcheck"
  /\ isvalidhash(mesontar, SHA256)
  /\ pc' = "untar_open"
  /\ UNCHANGED <<run, argv, fs, fs0, page, mesontar, tarbuffered, t, ogdir,
                 exc, log, exitcode, prevRun>>

\* lines 121-125: report, then the script ends.
HashInvalid ==
  /\ pc = "hashcheck"
  /\ ~isvalidhash(mesontar, SHA256)
  /\ log' = Append(log, "eprintf:checksum")
  /\ Terminate("none")
  /\ UNCHANGED <<run, argv, fs, fs0, page, mesontar, tarbuffered, t, ogdir,
                 prevRun>>

----------------------------------------------------------------------------
(* untartodir(), lines 89-103, with checkedrename(), lines 73-86 *)

\* lines 93-94: the archive opens.
UntarOpen ==
  /\ pc = "untar_open"
  /\ mesontar.tar
  /\ tarbuffered' = "open"
  /\ t' = "open"
  /\ log' = Append(log, "tarfile.open")
  /\ pc' = "untar_members"
  /\ UNCHANGED <<run, argv, fs, fs0, page, mesontar, ogdir, exc, exitcode,
                 prevRun>>

\* lines 94, 97-98: tarfile.open raises CompressionError (the archive cannot
\* be decompressed); the handler prints it and the exception is handled.
\* The tarfile library raises CompressionError only while opening an archive,
\* so this is the one statement of the try block the handler can follow.
UntarOpenCompressionError ==
  /\ pc = "untar_open"
  /\ tarbuffered' = "open"
  /\ log' = log \o <<"tarfile.open", "print:CompressionError">>
  /\ pc' = "untar_finally"
  /\ UNCHANGED <<run, argv, fs, fs0, page, mesontar, t, ogdir, exc, exitcode,
                 prevRun>>

\* line 94: the bytes are no archive; tarfile.open raises ReadError, which no
\* handler matches.
UntarOpenReadError ==
  /\ pc = "untar_open"
  /\ ~mesontar.tar
  /\ tarbuffered' = "open"
  /\ log' = log \o <<"tarfile.open", "raise:ReadError">>
  /\ exc' = "ReadError"
  /\ pc' = "untar_finally"
  /\ UNCHANGED <<run, argv, fs, fs0, page, mesontar, t, ogdir, exitcode,
                 prevRun>>

\* line 95: ogdir = t.getmembers()[0].name; IndexError on an empty archive.
UntarMembers ==
  /\ pc = "untar_members"
  /\ IF mesontar.members = <<>>
       THEN /\ exc' = "IndexError"
            /\ pc' = "untar_finally"
            /\ UNCHANGED ogdir
       ELSE /\ ogdir' = membername(mesontar.members[1])
            /\ pc' = "untar_extract"
            /\ UNCHANGED exc
  /\ UNCHANGED <<run, argv, fs, fs0, page, mesontar, tarbuffered, t, log,
                 exitcode, prevRun>>

\* Only the first member extracted.
UntarExtract_first ==
  /\ pc = "untar_extract"
  /\ fs' = extracted(fs, mesontar.members, 1)
  /\ log' = Append(log, "extractall")
  /\ pc' = "checkedrename"
  /\ UNCHANGED <<run, argv, fs0, page, mesontar, tarbuffered, t, ogdir, exc,
                 exitcode, prevRun>>

\* line 96: t.extractall() writes every member into the working directory.
UntarExtract ==
  /\ pc = "untar_extract"
  /\ fs' = extracted(fs, mesontar.members, Len(mesontar.members))
  /\ log' = Append(log, "extractall")
  /\ pc' = "checkedrename"
  /\ UNCHANGED <<run, argv, fs0, page, mesontar, tarbuffered, t, ogdir, exc,
                 exitcode, prevRun>>

layoutok_inverted(src) == src # <<TAR_DIR>>

\* line 74: the layout check of checkedrename(src, dst) passes.
layoutok(src) == src = <<TAR_DIR>>

\* lines 74-79: unexpected layout, sys.exit(1).
CheckedRenameUnexpected ==
  /\ pc = "checkedrename"
  /\ ~layoutok(ogdir)
  /\ log' = Append(log, "eprintf:layout")
  /\ exc' = "SystemExit(1)"
  /\ pc' = "untar_finally"
  /\ UNCHANGED <<run, argv, fs, fs0, page, mesontar, tarbuffered, t, ogdir,
                 exitcode, prevRun>>

\* lines 80-84: dst exists and is removed.
CheckedRenameOverwrite ==
  /\ pc = "checkedrename"
  /\ layoutok(ogdir)
  /\ pathexists(CanonicalDir)
  /\ log' = log \o <<"eprintf:Overwriting", "rmtree">>
  /\ fs' = [fs EXCEPT ![CanonicalDir] = Absent]
  /\ pc' = "rename"
  /\ UNCHANGED <<run, argv, fs0, page, mesontar, tarbuffered, t, ogdir, exc,
                 exitcode, prevRun>>

\* line 80: dst does not exist.
CheckedRenameFresh ==
  /\ pc = "checkedrename"
  /\ layoutok(ogdir)
  /\ ~pathexists(CanonicalDir)
  /\ pc' = "rename"
  /\ UNCHANGED <<run, argv, fs, fs0, page, mesontar, tarbuffered, t, ogdir,
                 exc, log, exitcode, prevRun>>

\* os.rename(dst, src)
renamed_swapped(f, src, dst) == [f EXCEPT ![src] = f[dst], ![dst] = Absent]

\* os.rename(src, dst) of a directory onto a free name
renamed(f, src, dst) == [f EXCEPT ![dst] = f[src], ![src] = Absent]

\* line 86
CheckedRenameRename ==
  /\ pc = "rename"
  /\ fs' = renamed(fs, ogdir[1], CanonicalDir)
  /\ log' = Append(log, "rename")
  /\ pc' = "untar_finally"
  /\ UNCHANGED <<run, argv, fs0, page, mesontar, tarbuffered, t, ogdir, exc,
                 exitcode, prevRun>>

\* lines 101-103: finally: tarbuffered.close(); t.close()
UntarFinally ==
  /\ pc = "untar_finally"
  /\ tarbuffered' = "closed"
  /\ IF closeraises(t)
       THEN /\ log' = log \o <<"tarbuffered.close", "raise:UnboundLocalError">>
            /\ Terminate("UnboundLocalError")
            /\ UNCHANGED t
       ELSE /\ t' = "closed"
            /\ log' = log \o <<"tarbuffered.close", "t.close">>
            /\ IF exc # "none"
                 THEN Terminate(exc)
                 ELSE /\ pc' = "report"
                      /\ UNCHANGED <<exc, exitcode>>
  /\ UNCHANGED <<run, argv, fs, fs0, page, mesontar, ogdir, prevRun>>

\* lines 117-120, then the script ends.
ReportInstalled ==
  /\ pc = "report"
  /\ log' = Append(log, "print:installed")
  /\ Terminate("none")
  /\ UNCHANGED <<run, argv, fs, fs0, page, mesontar, tarbuffered, t, ogdir,
                 prevRun>>

----------------------------------------------------------------------------
(* The next invocation, in the working directory the last one left *)

\* How the invocation that just ended went:
\*   "found"     exists(VERSION) returned true;
\*   "raised"    exists(VERSION) raised;
\*   "installed" it downloaded, the download delivered the release asset and
\*               the tar library could read it;
\*   "other"     it was stopped by the dry-run flag, the download failed or
\*               delivered something else, or the tar library failed.
outcome ==
  CASE Logged("print:found") -> "found"
    [] exc = "CalledProcessError" -> "raised"
    [] /\ mesontar = ReleaseDownload
       /\ ~Logged("print:CompressionError") -> "installed"
    [] OTHER -> "other"

NextRun ==
  /\ pc = "done"
  /\ run < MaxRuns
  /\ run' = run + 1
  /\ prevRun' = outcome
  /\ argv' \in ArgLists
  /\ fs0' = fs
  /\ pc' = "start"
  /\ page' = "unbound"
  /\ mesontar' = NoTar
  /\ tarbuffered' = "unbound"
  /\ t' = "unbound"
  /\ ogdir' = NoPath
  /\ exc' = "none"
  /\ log' = <<>>
  /\ exitcode' = Running
  /\ UNCHANGED fs

----------------------------------------------------------------------------
Next ==
  \/ ExistsRaises
  \/ FoundInstalled
  \/ NotInstalled
  \/ DryRunExit
  \/ GetTarUrlopen
  \/ GetTarUrlopenFails
  \/ GetTarRead
  \/ GetTarReadFails
  \/ GetTarFinally
  \/ HashValid
  \/ HashInvalid
  \/ UntarOpen
  \/ UntarOpenCompressionError
  \/ UntarOpenReadError
  \/ UntarMembers
  \/ UntarExtract
  \/ CheckedRenameUnexpected
  \/ CheckedRenameOverwrite
  \/ CheckedRenameFresh
  \/ CheckedRenameRename
  \/ UntarFinally
  \/ ReportInstalled
  \/ NextRun

Spec == Init /\ [][Next]_vars

TypeOK ==
  /\ pc \in {"start", "notfound", "gettar_read", "gettar_finally", "hashcheck",
             "untar_open", "untar_members", "untar_extract", "checkedrename",
             "rename", "untar_finally", "report", "done"}
  /\ run \in 1..MaxRuns
  /\ argv \in ArgLists
  /\ fs \in FileSystems
  /\ fs0 \in FileSystems
  /\ page \in {"unbound", "open", "closed"}
  /\ mesontar \in Downloads \cup {NoTar}
  /\ tarbuffered \in {"unbound", "open", "closed"}
  /\ t \in {"unbound", "open", "closed"}
  /\ exitcode \in {Running, 0, 1}
  /\ (exitcode = Running) = (pc # "done")
  /\ prevRun \in {"none", "found", "raised", "installed", "other"}

----------------------------------------------------------------------------
(* Vocabulary of the properties *)

\* Position of the first occurrence of e in the log, 0 when it is absent.
LogIndex(e) ==
  IF Logged(e) THEN CHOOSE i \in 1..Len(log) :
                      log[i] = e /\ \A j \in 1..(i - 1) : log[j] # e
  ELSE 0

\* The working directory held, when the invocation started, a meson/meson.py
\* with contents `data`.
StartedWith(data) ==
  /\ fs0[CanonicalDir] # Absent
  /\ fs0[CanonicalDir]["meson.py"] = data

\* The invocation made no network request and wrote nothing.
NoNetwork == ~Logged("urlopen") /\ ~Logged("read")
NoWrites ==
  /\ fs = fs0
  /\ ~Logged("extractall") /\ ~Logged("rmtree") /\ ~Logged("rename")

\* The download returned bytes.
Downloaded == mesontar # NoTar

\* Some member of the archive lies at or below top-level name d.
Names(members, d) == \E i \in 1..Len(members) : members[i].dir = d

\* f is f0 with the archive extracted over it: a top-level name no member
\* names is as before; a named one is a directory in which every file is what
\* the last member writing it holds, or what it was before when none does.
ExtractedOver(f0, f, members) ==
  \A d \in TopNames :
    IF Names(members, d)
      THEN /\ f[d] # Absent
           /\ \A n \in FileNames :
                LET writers == {i \in 1..Len(members) :
                                  members[i].dir = d /\ members[i].file = n}
                    last == CHOOSE i \in writers : \A j \in writers : j <= i
                IN  IF writers = {}
                      THEN f[d][n] = IF f0[d] = Absent THEN NoFile
                                     ELSE f0[d][n]
                      ELSE f[d][n] = members[last].data
      ELSE f[d] = f0[d]

----------------------------------------------------------------------------
(* Properties *)

\* C1: a run that starts with meson/meson.py present and reporting VERSION
\* has exists(VERSION) true at the check and then ends at once with
\* "Found meson", exit code 0, no network request and the working directory
\* as it was.
C1_AlreadyInstalled ==
  StartedWith("py_ok") =>
    \/ pc = "start" /\ ~existsraises /\ exists(VERSION)
    \/ /\ Done
       /\ Logged("print:found")
       /\ exitcode = 0
       /\ NoNetwork
       /\ NoWrites

C1_Witness == Done /\ StartedWith("py_ok") /\ exitcode = 0

\* C2: a run started with -n in which the expected version is not installed
\* (canonical directory absent, without meson.py, or with a meson.py that
\* reports another version) makes no network request, writes nothing and
\* exits with a non-zero code.
C2_DryRun ==
  (/\ \E i \in 1..Len(argv) : argv[i] = "-n"
   /\ ~StartedWith("py_ok")
   /\ ~StartedWith("py_fail")) =>
    /\ NoNetwork
    /\ NoWrites
    /\ pc \in {"start", "notfound", "done"}
    /\ Done => exitcode # 0 /\ Logged("eprintf:dryrun")

C2_Witness ==
  /\ Done
  /\ Logged("eprintf:dryrun")
  /\ StartedWith("py_old")
  /\ exitcode = 1

\* C3: when the download succeeds and the digest of the bytes differs from
\* SHA256, the checksum error is printed, the archive is never opened or
\* extracted, and the working directory (the canonical directory with it)
\* is at every later point of the run what it was at the start.
C3_HashMismatch ==
  (Downloaded /\ mesontar.digest # SHA256) =>
    /\ pc \in {"gettar_finally", "hashcheck", "done"}
    /\ ~Logged("tarfile.open")
    /\ NoWrites
    /\ fs[CanonicalDir] = fs0[CanonicalDir]
    /\ Done => Logged("eprintf:checksum")

C3_Witness ==
  /\ Done
  /\ Downloaded
  /\ mesontar.digest # SHA256
  /\ Logged("eprintf:checksum")
  /\ pathexists(CanonicalDir)

\* C4: the exit code is 0 when the run installs or finds the expected
\* version installed, and 1 on every fatal error: network failure, hash
\* mismatch, unexpected archive layout, dry run that would install.
C4_ExitCodes ==
  Done =>
    /\ (Logged("print:found") \/ Logged("rename")) => exitcode = 0
    /\ (\/ Logged("eprintf:HTTPError")
        \/ Logged("eprintf:URLError")
        \/ exc = "ConnectionResetError"
        \/ Logged("eprintf:checksum")
        \/ Logged("eprintf:layout")
        \/ Logged("eprintf:dryrun")) => exitcode = 1

\* C5 as stated: in every run that read the archive's first entry name and
\* found it different from TAR_DIR, the run ends with a non-zero exit code
\* and the canonical directory is what it was at the start.
C5_CanonicalUntouched ==
  (Done /\ ogdir # NoPath /\ ogdir # <<TAR_DIR>>) =>
    /\ exitcode # 0
    /\ fs[CanonicalDir] = fs0[CanonicalDir]

\* C5 amended: such a run ends with the layout error and exit code 1, and the
\* canonical directory is neither deleted nor renamed over: the working
\* directory is the one of the start with the archive extracted over it, so
\* the canonical directory is what it was unless the archive itself has
\* members under the canonical name.
C5_LayoutMismatch ==
  (Done /\ ogdir # NoPath /\ ogdir # <<TAR_DIR>>) =>
    /\ Logged("eprintf:layout")
    /\ exitcode = 1
    /\ ~Logged("rmtree") /\ ~Logged("rename")
    /\ ExtractedOver(fs0, fs, mesontar.members)
    /\ pathexists(CanonicalDir) \/ fs0[CanonicalDir] = Absent
    /\ ~Names(mesontar.members, CanonicalDir) =>
         fs[CanonicalDir] = fs0[CanonicalDir]

C5_Witness ==
  /\ Done
  /\ ogdir = <<"unexpected-dir">>
  /\ fs0[CanonicalDir] # Absent
  /\ Logged("eprintf:layout")

\* C6: when the previous run found the version installed, or installed it
\* from a download that delivered the release asset, the next run
\* short-circuits in exists(VERSION): it makes no network request, changes
\* nothing in the working directory (which therefore ends as one run left
\* it), and ends with "Found meson" (or with the error exists() raised
\* already in the previous run).
C6_Idempotent ==
  prevRun \in {"found", "raised", "installed"} =>
    /\ pc \in {"start", "done"}
    /\ NoNetwork
    /\ NoWrites
    /\ Done => IF prevRun = "raised"
                 THEN exc = "CalledProcessError"
                 ELSE Logged("print:found") /\ exitcode = 0

C6_Witness ==
  /\ Done
  /\ prevRun = "installed"
  /\ Logged("print:found")
  /\ fs[TAR_DIR] = Absent

\* C7: at the end of every run the response stream and the archive reader
\* are not left open, and no close() in a finally clause raised an error of
\* its own in place of the failure being reported.
C7_ReleasedWithoutError ==
  Done =>
    /\ page # "open"
    /\ tarbuffered # "open"
    /\ t # "open"
    /\ ~Logged("raise:UnboundLocalError")

\* C8: the canonical directory of the start is missing only between rmtree
\* and rename; rmtree happens only after a download with matching checksum
\* whose archive was extracted and whose root name is TAR_DIR; the rename
\* follows it, so that the run ends with the canonical directory holding
\* the extracted directory.
C8_DeleteThenRename ==
  /\ (fs0[CanonicalDir] # Absent /\ fs[CanonicalDir] = Absent) =>
       pc = "rename" /\ Logged("rmtree")
  /\ Logged("rmtree") =>
       /\ Downloaded
       /\ mesontar.digest = SHA256
       /\ Logged("extractall")
       /\ LogIndex("extractall") < LogIndex("rmtree")
       /\ ogdir = <<TAR_DIR>>
       /\ pc \in {"rename", "untar_finally", "report", "done"}
       /\ pc # "rename" =>
            /\ LogIndex("rmtree") < LogIndex("rename")
            /\ fs[CanonicalDir] # Absent
            /\ fs[TAR_DIR] = Absent

C8_Witness ==
  /\ Done
  /\ Logged("rmtree")
  /\ Logged("rename")
  /\ StartedWith("py_old")
  /\ fs[CanonicalDir]["meson.py"] = "py_ok"

\* C9: when the archive cannot be opened for decompression (tarfile.open
\* raised CompressionError, which the handler printed, or ReadError), the run
\* goes straight to the finally clause and ends: no rmtree, no rename, the
\* canonical directory what it was, no success report, exit code 1.
C9_CompressionError ==
  (Logged("print:CompressionError") \/ Logged("raise:ReadError")) =>
    /\ pc \in {"untar_finally", "done"}
    /\ ~Logged("rmtree") /\ ~Logged("rename")
    /\ ~Logged("print:installed")
    /\ fs[CanonicalDir] = fs0[CanonicalDir]
    /\ Done => exitcode = 1

C9_Witness ==
  /\ Done
  /\ Logged("print:CompressionError")
  /\ pathexists(CanonicalDir)

\* C10 as stated: a run that ends without completing the install leaves the
\* working directory as it was.
C10_WorkdirRestored ==
  (Done /\ ~Logged("rename")) => fs = fs0

\* C10 amended: the working directory stays what it was as long as the run
\* has not reached extractall (network failure, checksum mismatch, archive
\* that cannot be opened or is empty); a run that fails the layout check
\* ends with every archive member extracted into the working directory and
\* nothing else changed.
C10_WorkdirOnFailure ==
  /\ ~Logged("extractall") => fs = fs0
  /\ (Done /\ ~Logged("rename") /\ Logged("extractall")) =>
       /\ Logged("eprintf:layout")
       /\ exitcode = 1
       /\ ExtractedOver(fs0, fs, mesontar.members)

C10_Witness ==
  /\ Done
  /\ Logged("eprintf:layout")
  /\ fs # fs0
  /\ fs["unexpected-dir"] # Absent

====
